---- MODULE Spec2Model ----
(***************************************************************************)
(* A model of cargo-semver-hook (src/src/main.rs): the `bump` and          *)
(* `check-tags` operations over a git repository and its Cargo.toml.       *)
(*                                                                         *)
(* Text is modelled as sequences of one-character strings, so that the     *)
(* formatting, splitting and parsing the program performs are computed     *)
(* and not assumed: <<"d","e","v",".","1">> is the text dev.1 .            *)
(***************************************************************************)
EXTENDS Integers, Sequences, FiniteSets, TLC

(***************************************************************************)
(* Bounds of the model.                                                    *)
(***************************************************************************)
\* largest commit distance between the latest tag and HEAD
MaxDist == 2
\* largest number of repository changes (edits, stagings, commits, tags)
\* made by the user in one behaviour
MaxEdits == 2
\* largest commit distance drawn by the derivation specification
MaxCount == 10

\* i32::MAX, the range of `n_commits.parse::<i32>()`
I32Max == 2147483647

(***************************************************************************)
(* Characters and text.                                                    *)
(***************************************************************************)
Digits == <<"0", "1", "2", "3", "4", "5", "6", "7", "8", "9">>

\* the characters of the model in their byte order (str's Ord is bytewise)
CharOrder ==
    <<"-", ".">> \o Digits \o
    <<"a", "b", "c", "d", "e", "f", "g", "h", "i", "j", "k", "l", "m",
      "n", "o", "p", "q", "r", "s", "t", "u", "v", "w", "x", "y", "z">>

\* the position of each character in that order
CodeOf ==
    [c \in {CharOrder[i] : i \in 1..Len(CharOrder)} |->
        CHOOSE i \in 1..Len(CharOrder) : CharOrder[i] = c]

Code(c) == CodeOf[c]

DigitSet == {Digits[i] : i \in 1..Len(Digits)}

IsDigit(c) == c \in DigitSet

DigitVal(c) == CodeOf[c] - CodeOf["0"]

AllDigits(s) == \A i \in 1..Len(s) : IsDigit(s[i])

\* index of the first occurrence of c in s, Len(s) + 1 when there is none
RECURSIVE IndexFrom(_, _, _)
IndexFrom(s, c, i) ==
    IF i > Len(s) \/ s[i] = c THEN i ELSE IndexFrom(s, c, i + 1)

IndexOf(s, c) == IndexFrom(s, c, 1)

\* str::split(sep): the parts between the separators, empty parts included
RECURSIVE Split(_, _)
Split(s, sep) ==
    LET i == IndexOf(s, sep)
    IN  IF i > Len(s)
        THEN <<s>>
        ELSE <<SubSeq(s, 1, i - 1)>> \o Split(SubSeq(s, i + 1, Len(s)), sep)

\* Display of a non-negative integer (format!("{}", n)); a negative i32
\* prints with a leading minus sign
RECURSIVE FormatNat(_)
FormatNat(n) ==
    IF n < 10 THEN <<Digits[n + 1]>>
    ELSE FormatNat(n \div 10) \o <<Digits[(n % 10) + 1]>>

FormatInt(n) == IF n < 0 THEN <<"-">> \o FormatNat(0 - n) ELSE FormatNat(n)

\* the value of a string of digits
RECURSIVE DigitsValue(_)
DigitsValue(s) ==
    IF Len(s) = 0 THEN 0
    ELSE 10 * DigitsValue(SubSeq(s, 1, Len(s) - 1)) + DigitVal(s[Len(s)])

\* str::parse::<i32>() on a part of a pre-release: the parts hold no sign
\* (they were split on '-', and '+' ends a pre-release), so a part parses
\* exactly when it is a non-empty string of digits within the i32 range
InI32(ok, val) ==
    IF ok /\ val <= I32Max THEN [ok |-> TRUE, val |-> val] ELSE [ok |-> FALSE, val |-> 0]

ParseI32(s) ==
    IF Len(s) > 0 /\ Len(s) <= 9 /\ AllDigits(s) THEN InI32(TRUE, DigitsValue(s))
    ELSE InI32(FALSE, 0)

\* str::ends_with
EndsWith(s, suffix) ==
    /\ Len(suffix) <= Len(s)
    /\ SubSeq(s, Len(s) - Len(suffix) + 1, Len(s)) = suffix

\* Path::extension: the text after the last '.', none without a '.'
RECURSIVE Extension(_)
Extension(path) ==
    LET i == IndexOf(path, ".")
    IN  IF i > Len(path) THEN <<>>
        ELSE LET rest == SubSeq(path, i + 1, Len(path))
             IN  IF IndexOf(rest, ".") > Len(rest) THEN rest ELSE Extension(rest)

\* str::cmp: bytewise lexicographic order, -1, 0 or 1
RECURSIVE StrCmp(_, _)
StrCmp(a, b) ==
    IF Len(a) = 0 /\ Len(b) = 0 THEN 0
    ELSE IF Len(a) = 0 THEN -1
    ELSE IF Len(b) = 0 THEN 1
    ELSE IF Code(a[1]) < Code(b[1]) THEN -1
    ELSE IF Code(a[1]) > Code(b[1]) THEN 1
    ELSE StrCmp(Tail(a), Tail(b))

IntCmp(a, b) == IF a < b THEN -1 ELSE IF a > b THEN 1 ELSE 0

(***************************************************************************)
(* semver::Version and semver::Prerelease, as the program uses them.       *)
(* A version is [major, minor, patch, pre], pre being the pre-release      *)
(* text (<<>> when there is none). Build metadata is always empty: the     *)
(* candidate is built with BuildMetadata::EMPTY and the versions of the    *)
(* model carry none.                                                       *)
(***************************************************************************)
\* a numeric field or identifier: digits without a leading zero
ValidNumber(s) == Len(s) > 0 /\ AllDigits(s) /\ (Len(s) > 1 => s[1] # "0")

\* Prerelease::new accepts dot-separated, non-empty identifiers, the
\* all-digit ones without a leading zero
ValidPre(s) ==
    LET ids == Split(s, ".")
    IN  \A i \in 1..Len(ids) :
            /\ Len(ids[i]) > 0
            /\ AllDigits(ids[i]) => ValidNumber(ids[i])

NoVersion == [ok |-> FALSE, major |-> 0, minor |-> 0, patch |-> 0, pre |-> <<>>]

\* a version from the parts of its text: the dot-separated core, whether
\* a '-' follows it, and the text after that '-'
VersionOf(core, has_pre, pre) ==
    IF /\ Len(core) = 3
       /\ \A k \in 1..3 : ValidNumber(core[k])
       /\ (has_pre => Len(pre) > 0 /\ ValidPre(pre))
    THEN [ok |-> TRUE, major |-> DigitsValue(core[1]),
          minor |-> DigitsValue(core[2]), patch |-> DigitsValue(core[3]),
          pre |-> pre]
    ELSE NoVersion

ParseAt(s, i) ==
    VersionOf(Split(SubSeq(s, 1, i - 1), "."), i <= Len(s), SubSeq(s, i + 1, Len(s)))

\* Version::parse: MAJOR.MINOR.PATCH, then '-' and the pre-release
ParseVersion(s) == ParseAt(s, IndexOf(s, "-"))

\* Display of a Version (format!("{}", v), Version::to_string)
VersionText(v) ==
    FormatNat(v.major) \o <<".">> \o FormatNat(v.minor) \o <<".">> \o
    FormatNat(v.patch) \o (IF Len(v.pre) = 0 THEN <<>> ELSE <<"-">> \o v.pre)

\* the order of two pre-release identifiers: numeric ones by value (by
\* length, then bytewise), a numeric one below an alphanumeric one,
\* alphanumeric ones bytewise
IdentCmp(a, b) ==
    IF AllDigits(a) /\ AllDigits(b)
    THEN (IF Len(a) # Len(b) THEN IntCmp(Len(a), Len(b)) ELSE StrCmp(a, b))
    ELSE IF AllDigits(a) THEN -1
    ELSE IF AllDigits(b) THEN 1
    ELSE StrCmp(a, b)

RECURSIVE IdentsCmp(_, _)
IdentsCmp(as, bs) ==
    IF Len(as) = 0 THEN (IF Len(bs) = 0 THEN 0 ELSE -1)
    ELSE IF Len(bs) = 0 THEN 1
    ELSE LET c == IdentCmp(as[1], bs[1])
         IN  IF c # 0 THEN c ELSE IdentsCmp(Tail(as), Tail(bs))

\* Ord for Prerelease: no pre-release ranks above any pre-release
PreCmp(a, b) ==
    IF Len(a) = 0 THEN (IF Len(b) = 0 THEN 0 ELSE 1)
    ELSE IF Len(b) = 0 THEN -1
    ELSE IdentsCmp(Split(a, "."), Split(b, "."))

\* Ord for Version: major, minor, patch, then the pre-release
VersionCmp(a, b) ==
    IF a.major # b.major THEN IntCmp(a.major, b.major)
    ELSE IF a.minor # b.minor THEN IntCmp(a.minor, b.minor)
    ELSE IF a.patch # b.patch THEN IntCmp(a.patch, b.patch)
    ELSE PreCmp(a.pre, b.pre)

VersionLess(a, b) == VersionCmp(a, b) < 0

(***************************************************************************)
(* Labeling modes and the development pre-release.                         *)
(***************************************************************************)
VersioningKindArg == {"PEP440", "Semver", "SemverCommit"}

\* mk_prerelease_str: the label of n_commits in a mode; base_commit is the
\* commit text a SemverCommit mode carries
mk_prerelease_str(n_commits, kind, base_commit) ==
    CASE kind = "PEP440" -> <<"d", "e", "v">> \o FormatInt(n_commits)
      [] kind = "Semver" -> <<"d", "e", "v", ".">> \o FormatInt(n_commits)
      [] kind = "SemverCommit" ->
            <<"d", "e", "v", ".">> \o FormatInt(n_commits) \o <<".", "g">> \o base_commit

\* variants of new_count against which the count rule is checked: one that
\* counts a clean tree like a dirty one, one that never counts the dirty tree
new_count_always_incremented(n_commits_from_last_tag, is_dirty) ==
    n_commits_from_last_tag + 1

new_count_never_incremented(n_commits_from_last_tag, is_dirty) ==
    n_commits_from_last_tag

\* the count make_dev_prerelease renders for a parsed commit distance
new_count(n_commits_from_last_tag, is_dirty) ==
    IF is_dirty THEN n_commits_from_last_tag + 1 ELSE n_commits_from_last_tag

\* Prerelease::new(&new_pre_str): [ok, pre]
new_prerelease(new_pre_str) ==
    IF ValidPre(new_pre_str) THEN [ok |-> TRUE, pre |-> new_pre_str]
    ELSE [ok |-> FALSE, pre |-> <<>>]

\* the match on pre_parts: two parts, the first of which parses as an i32
parse_pre_parts(pre_parts) ==
    IF Len(pre_parts) = 2 THEN ParseI32(pre_parts[1]) ELSE [ok |-> FALSE, val |-> 0]

dev_prerelease_from(parsed, kind, base_commit, is_dirty) ==
    IF parsed.ok
    THEN new_prerelease(mk_prerelease_str(new_count(parsed.val, is_dirty), kind, base_commit))
    ELSE [ok |-> FALSE, pre |-> <<>>]

\* make_dev_prerelease: [ok, pre], ok = FALSE being the Err it returns
make_dev_prerelease(pre, kind, base_commit, is_dirty) ==
    IF Len(pre) = 0
    THEN [ok |-> TRUE, pre |-> mk_prerelease_str(1, kind, base_commit)]
    ELSE dev_prerelease_from(parse_pre_parts(Split(pre, "-")), kind, base_commit, is_dirty)

(***************************************************************************)
(* The repository.                                                         *)
(***************************************************************************)
\* the tracked files of the tests besides the manifest, and the manifest
F0RS == <<"f", "0", ".", "r", "s">>
F0 == <<"f", "0">>
CargoToml == <<"C", "a", "r", "g", "o", ".", "t", "o", "m", "l">>
Files == {F0RS, F0}

RS == <<"r", "s">>

\* names of release tags: plain, with the leading v, and with a pre-release
TagNames ==
    { <<"0", ".", "1", ".", "0">>,
      <<"v", "0", ".", "2", ".", "0">>,
      <<"0", ".", "1", ".", "0", "-", "r", "c", "1">> }

\* the leading hexadecimal digits of the commit ids of the model: of the
\* commit HEAD is at first, and of the commits made later
FirstHead == <<"a", "1", "b", "2", "c">>
HeadIds == { FirstHead, <<"0", "f", "3", "e", "9">> }

\* the versions a human writes into the manifest
UserVersions == { <<"0", ".", "1", ".", "0">>, <<"0", ".", "2", ".", "0">> }

VARIABLES
    tag,        \* name of the latest tag reachable from HEAD
    dist,       \* number of commits from that tag to HEAD
    head,       \* id of the HEAD commit
    diffPaths,  \* paths that differ between the tag's tree and HEAD's tree
    dirtyPaths, \* tracked files other than the manifest changed since HEAD
    headToml,   \* version text of Cargo.toml in the HEAD commit
    indexToml,  \* version text of Cargo.toml in the index (stage 0)
    wtToml,     \* version text of Cargo.toml in the working tree
    edits,      \* number of changes the user has made to the repository
    again,      \* whether the program has run twice since the last such change
    out         \* what the last run returned and observed

vars == <<tag, dist, head, diffPaths, dirtyPaths, headToml, indexToml, wtToml, edits, again, out>>

\* the repository as a run of the program finds it
Repo ==
    [tag |-> tag, dist |-> dist, head |-> head, diffPaths |-> diffPaths,
     dirtyPaths |-> dirtyPaths, headToml |-> headToml, indexToml |-> indexToml,
     wtToml |-> wtToml]

\* repo.describe(describe_tags).format(abbreviated_size): the tag name, and
\* -<distance>-g<abbreviated id> when HEAD is past the tag and the
\* abbreviation is not 0
describe(repo, abbrv_size) ==
    IF repo.dist = 0 \/ abbrv_size = 0 THEN repo.tag
    ELSE repo.tag \o <<"-">> \o FormatNat(repo.dist) \o <<"-", "g">> \o SubSeq(repo.head, 1, abbrv_size)

strip_prefix_v(s) == IF Len(s) > 0 /\ s[1] = "v" THEN Tail(s) ELSE s

get_latest_tag(repo, abbrv_size) == ParseVersion(strip_prefix_v(describe(repo, abbrv_size)))

\* parse_cargo_version: the version of the first `version = "..."` line
parse_cargo_version(contents) == ParseVersion(contents)

\* the status entries of the repository that are neither IGNORED nor WT_NEW
statuses(repo) ==
    repo.dirtyPaths \cup
    (IF repo.headToml # repo.indexToml \/ repo.indexToml # repo.wtToml THEN {CargoToml} ELSE {})

is_repo_dirty(repo, filetype) ==
    \E s \in statuses(repo) : filetype.some => EndsWith(s, filetype.ext)

\* repo.revparse_single(name) for a tag name: the tag is the one reference
\* of that kind in the repository
revparse_single_ok(repo, name) == name = repo.tag

\* check_rs_files_changed(repo, old_commit, "HEAD"): [ok, val]
check_rs_files_changed(repo, old_commit) ==
    IF revparse_single_ok(repo, old_commit)
    THEN [ok |-> TRUE, val |-> \E file_path \in repo.diffPaths : Extension(file_path) = RS]
    ELSE [ok |-> FALSE, val |-> FALSE]

\* Result::unwrap_or
unwrap_or(r, default) == IF r.ok THEN r.val ELSE default

NoOutcome ==
    [op |-> "none", dry_run |-> FALSE, mode |-> "none",
     result |-> "none", is_dirty |-> FALSE, changed |-> FALSE,
     declared |-> <<>>, latest |-> <<>>, candidate |-> <<>>, wrote |-> FALSE]

\* a variant of compare_versions that reports success once it has written
compare_versions_write_ok(seen, cargo_ver, new_version, dry_run) ==
    IF VersionLess(cargo_ver, new_version)
    THEN [seen EXCEPT !.result = IF dry_run THEN "Outdated" ELSE "Ok",
                      !.candidate = VersionText(new_version), !.wrote = ~dry_run]
    ELSE [seen EXCEPT !.result = "Ok", !.candidate = VersionText(new_version)]

\* the end of run_sem_ver_repo: the comparison of the manifest's version
\* with the new version, and what is reported and written
compare_versions(seen, cargo_ver, new_version, dry_run) ==
    IF VersionLess(cargo_ver, new_version)
    THEN [seen EXCEPT !.result = "Outdated", !.candidate = VersionText(new_version),
                      !.wrote = ~dry_run]
    ELSE [seen EXCEPT !.result = "Ok", !.candidate = VersionText(new_version)]

\* the body of run_sem_ver_repo over what it read from the repository
sem_ver_outcome(seen, sem_ver, cargo_ver, mode_arg, base_commit, dry_run) ==
    IF ~sem_ver.ok \/ ~cargo_ver.ok
    THEN [seen EXCEPT !.result = "Err"]
    ELSE IF ~seen.is_dirty /\ ~seen.changed
    THEN [seen EXCEPT !.result = "Ok"]
    ELSE IF ~make_dev_prerelease(sem_ver.pre, mode_arg, base_commit, seen.is_dirty).ok
    THEN [seen EXCEPT !.result = "Err"]
    ELSE compare_versions(
             seen, cargo_ver,
             [ok |-> TRUE, major |-> sem_ver.major, minor |-> sem_ver.minor,
              patch |-> sem_ver.patch + 1,
              pre |-> make_dev_prerelease(sem_ver.pre, mode_arg, base_commit, seen.is_dirty).pre],
             dry_run)

\* what run_sem_ver_repo observes: the dirty flag, the latest tag and
\* whether a .rs file changed since it (a failed lookup counts as changed)
observed(repo, dry_run, mode_arg, filetype, latest_tag_str) ==
    [NoOutcome EXCEPT !.op = "bump", !.dry_run = dry_run, !.mode = mode_arg,
                      !.is_dirty = is_repo_dirty(repo, filetype),
                      !.changed = unwrap_or(check_rs_files_changed(repo, latest_tag_str), TRUE),
                      !.declared = repo.indexToml, !.latest = latest_tag_str]

\* run_sem_ver_repo, up to its write: what it returns, what it observed
\* and the version it writes
run_sem_ver_repo(repo, dry_run, mode_arg, filetype) ==
    sem_ver_outcome(
        observed(repo, dry_run, mode_arg, filetype, VersionText(get_latest_tag(repo, 0))),
        get_latest_tag(repo, 4),
        parse_cargo_version(repo.indexToml),
        mode_arg,
        IF mode_arg = "SemverCommit" THEN SubSeq(repo.head, 1, 5) ELSE <<>>,
        dry_run)

\* variants of check_versions: one with the two sides of the comparison
\* swapped, one that also fails a release equal to the tag
check_versions_swapped(seen, cargo_version, sem_ver) ==
    IF ~cargo_version.ok \/ ~sem_ver.ok
    THEN [seen EXCEPT !.result = "Err"]
    ELSE IF Len(cargo_version.pre) = 0 /\ VersionLess(cargo_version, sem_ver)
    THEN [seen EXCEPT !.result = "Untagged", !.latest = VersionText(sem_ver)]
    ELSE [seen EXCEPT !.result = "Ok", !.latest = VersionText(sem_ver)]

check_versions_le(seen, cargo_version, sem_ver) ==
    IF ~cargo_version.ok \/ ~sem_ver.ok
    THEN [seen EXCEPT !.result = "Err"]
    ELSE IF Len(cargo_version.pre) = 0 /\ ~VersionLess(cargo_version, sem_ver)
    THEN [seen EXCEPT !.result = "Untagged", !.latest = VersionText(sem_ver)]
    ELSE [seen EXCEPT !.result = "Ok", !.latest = VersionText(sem_ver)]

\* the comparison of run_check_tags_repo
check_versions(seen, cargo_version, sem_ver) ==
    IF ~cargo_version.ok \/ ~sem_ver.ok
    THEN [seen EXCEPT !.result = "Err"]
    ELSE IF Len(cargo_version.pre) = 0 /\ VersionLess(sem_ver, cargo_version)
    THEN [seen EXCEPT !.result = "Untagged", !.latest = VersionText(sem_ver)]
    ELSE [seen EXCEPT !.result = "Ok", !.latest = VersionText(sem_ver)]

\* variants of run_check_tags_repo: one that compares on a clean tree too,
\* one that compares with the described tag (distance and commit included)
run_check_tags_repo_any_tree(repo) ==
    check_versions(
        [NoOutcome EXCEPT !.op = "check_tags",
                          !.is_dirty = is_repo_dirty(repo, [some |-> FALSE, ext |-> <<>>]),
                          !.declared = repo.headToml],
        parse_cargo_version(repo.headToml),
        get_latest_tag(repo, 0))

run_check_tags_repo_described(repo) ==
    IF ~is_repo_dirty(repo, [some |-> FALSE, ext |-> <<>>])
    THEN [NoOutcome EXCEPT !.op = "check_tags", !.result = "Ok"]
    ELSE check_versions(
             [NoOutcome EXCEPT !.op = "check_tags", !.is_dirty = TRUE, !.declared = repo.headToml],
             parse_cargo_version(repo.headToml),
             get_latest_tag(repo, 4))

\* run_check_tags_repo: what it returns and what it observed
run_check_tags_repo(repo) ==
    IF ~is_repo_dirty(repo, [some |-> FALSE, ext |-> <<>>])
    THEN [NoOutcome EXCEPT !.op = "check_tags", !.result = "Ok"]
    ELSE check_versions(
             [NoOutcome EXCEPT !.op = "check_tags", !.is_dirty = TRUE, !.declared = repo.headToml],
             parse_cargo_version(repo.headToml),
             get_latest_tag(repo, 0))

\* replace_version(path, ver): the working copy with the version of its
\* first `version = "..."` line replaced
replace_version(contents, ver) == ver

Init ==
    /\ tag \in TagNames
    /\ dist \in 0..MaxDist
    /\ head = FirstHead
    /\ diffPaths \in {{}, {F0RS}}
    /\ dist = 0 => diffPaths = {}
    /\ dirtyPaths = {}
    /\ headToml \in UserVersions
    /\ indexToml = headToml
    /\ wtToml = headToml
    /\ edits = 0
    /\ again = FALSE
    /\ out = NoOutcome

(***************************************************************************)
(* The two operations of the program.                                      *)
(***************************************************************************)
\* `bump`: run_sem_ver, which runs run_sem_ver_repo with Some("rs")
Bumped(r) ==
    /\ ~again
    /\ again' = (out.op # "none")
    /\ wtToml' = IF r.wrote THEN replace_version(wtToml, r.candidate) ELSE wtToml
    /\ out' = r
    /\ UNCHANGED <<tag, dist, head, diffPaths, dirtyPaths, headToml, indexToml, edits>>

Bump(dry_run, mode_arg) ==
    Bumped(run_sem_ver_repo(Repo, dry_run, mode_arg, [some |-> TRUE, ext |-> RS]))

\* `check-tags`: run_check_tags_repo
CheckTags ==
    /\ ~again
    /\ again' = (out.op # "none")
    /\ out' = run_check_tags_repo(Repo)
    /\ UNCHANGED <<tag, dist, head, diffPaths, dirtyPaths, headToml, indexToml, wtToml, edits>>

(***************************************************************************)
(* What the user does to the repository between two runs (the steps of     *)
(* the tests: write a file and add it to the index, commit, tag).          *)
(***************************************************************************)
Changed ==
    /\ edits < MaxEdits
    /\ edits' = edits + 1
    /\ again' = FALSE
    /\ out' = NoOutcome

\* a tracked file is rewritten and added to the index
ModifyFile(path) ==
    /\ path \notin dirtyPaths
    /\ Changed
    /\ dirtyPaths' = dirtyPaths \cup {path}
    /\ UNCHANGED <<tag, dist, head, diffPaths, headToml, indexToml, wtToml>>

\* the version of the working copy of the manifest is edited by hand
EditManifest(ver) ==
    /\ ver # wtToml
    /\ Changed
    /\ wtToml' = ver
    /\ UNCHANGED <<tag, dist, head, diffPaths, dirtyPaths, headToml, indexToml>>

\* index.add_path("Cargo.toml")
StageManifest ==
    /\ indexToml # wtToml
    /\ Changed
    /\ indexToml' = wtToml
    /\ UNCHANGED <<tag, dist, head, diffPaths, dirtyPaths, headToml, wtToml>>

\* the changed files, the manifest among them, are added to the index and
\* commit(repo, index, msg) makes the index a new commit on HEAD
Commit(id) ==
    /\ dist < MaxDist
    /\ id # head
    /\ statuses(Repo) # {}
    /\ Changed
    /\ head' = id
    /\ dist' = dist + 1
    /\ diffPaths' = diffPaths \cup statuses(Repo)
    /\ dirtyPaths' = {}
    /\ indexToml' = wtToml
    /\ headToml' = wtToml
    /\ UNCHANGED <<tag, wtToml>>

\* repo.tag(name, HEAD), on a commit made since the latest tag
TagHead(name) ==
    /\ dist > 0
    /\ Changed
    /\ tag' = name
    /\ dist' = 0
    /\ diffPaths' = {}
    /\ UNCHANGED <<head, dirtyPaths, headToml, indexToml, wtToml>>

Next ==
    \/ \E dry_run \in BOOLEAN, mode_arg \in VersioningKindArg : Bump(dry_run, mode_arg)
    \/ CheckTags
    \/ \E path \in Files : ModifyFile(path)
    \/ \E ver \in UserVersions : EditManifest(ver)
    \/ StageManifest
    \/ \E id \in HeadIds : Commit(id)
    \/ \E name \in TagNames : TagHead(name)

Spec == Init /\ [][Next]_vars

(***************************************************************************)
(* The derivation on its own: repositories at every commit distance up to  *)
(* MaxCount whose committed manifest holds a version written by hand or    *)
(* the development candidate of an earlier count, whose staged manifest is *)
(* the committed one or one written by hand, and the two operations run on *)
(* them.                                                                   *)
(***************************************************************************)
\* the tag names of these repositories: those above, and one whose
\* pre-release reads as a count and a suffix
GrownTagNames ==
    TagNames \cup { <<"0", ".", "1", ".", "0", "-", "1", "-", "r", "c">> }

\* the version of a tag name
TagVersion(name) == ParseVersion(strip_prefix_v(name))

\* the development version of a count after a tag, in a mode
DevVersion(base, count, kind, commit) ==
    VersionText([ok |-> TRUE, major |-> base.major, minor |-> base.minor,
                 patch |-> base.patch + 1,
                 pre |-> mk_prerelease_str(count, kind, IF kind = "SemverCommit" THEN commit ELSE <<>>)])

InitGrown ==
    /\ tag \in GrownTagNames
    /\ dist \in 0..MaxCount
    /\ head = FirstHead
    /\ diffPaths = IF dist = 0 THEN {} ELSE {F0RS}
    /\ dirtyPaths \in {{}, {F0RS}}
    /\ headToml \in UserVersions \cup
                    { DevVersion(TagVersion(tag), count, kind, head) :
                        count \in 1..(dist + 1), kind \in VersioningKindArg }
    /\ indexToml \in {headToml} \cup UserVersions
    /\ wtToml = indexToml
    /\ edits = 0
    /\ again = FALSE
    /\ out = NoOutcome

NextGrown ==
    \/ \E dry_run \in BOOLEAN, mode_arg \in VersioningKindArg : Bump(dry_run, mode_arg)
    \/ CheckTags

SpecGrown == InitGrown /\ [][NextGrown]_vars

(***************************************************************************)
(* Notions of the claims.                                                  *)
(***************************************************************************)
RsFiletype == [some |-> TRUE, ext |-> RS]

\* a step that is a run of `bump`, of `check-tags`
BumpStep == out'.op = "bump" /\ edits' = edits /\ (again' \/ out.op = "none")
CheckTagsStep == out'.op = "check_tags" /\ edits' = edits /\ (again' \/ out.op = "none")

\* the last run of bump computed a candidate
HasCandidate(o) == o.op = "bump" /\ Len(o.candidate) > 0

\* the version a text declares is a release: it has no pre-release
IsRelease(text) == ParseVersion(text).ok /\ Len(ParseVersion(text).pre) = 0

\* semantic-version precedence between two version texts
Precedes(a, b) == VersionLess(ParseVersion(a), ParseVersion(b))

\* the working tree holds no change to a tracked file
CleanTree == statuses(Repo) = {}

(***************************************************************************)
(* C1: when bump finds the declared version strictly below the candidate   *)
(* it returns Outdated with or without --dry-run; with --dry-run the       *)
(* manifest is left as it was, without it the candidate is written into    *)
(* the manifest and Outdated is returned all the same; when the declared   *)
(* version is not below the candidate it returns success and writes        *)
(* nothing.                                                                *)
(***************************************************************************)
C1_GateOf(o, before, after) ==
    IF HasCandidate(o) /\ Precedes(o.declared, o.candidate)
    THEN /\ o.result = "Outdated"
         /\ after = IF o.dry_run THEN before ELSE o.candidate
    ELSE /\ HasCandidate(o) => o.result = "Ok"
         /\ after = before

C1_BumpGate == [][BumpStep => C1_GateOf(out', wtToml, wtToml')]_vars

\* a bump that found the manifest outdated, wrote the candidate and failed
C1_Witness ==
    /\ out.op = "bump" /\ out.result = "Outdated" /\ ~out.dry_run
    /\ Precedes(out.declared, out.candidate)
    /\ wtToml = out.candidate /\ wtToml # indexToml

(***************************************************************************)
(* C2: once a bump has written the candidate into the manifest, a second   *)
(* bump (same mode) on the otherwise unchanged repository, nothing staged  *)
(* or committed, returns success and does not write.                       *)
(***************************************************************************)
C2_Idempotent ==
    [][(/\ out.op = "bump" /\ out.wrote
        /\ BumpStep /\ out'.mode = out.mode /\ out'.dry_run = out.dry_run)
       => (out'.result = "Ok" /\ ~out'.wrote)]_vars

(***************************************************************************)
(* C3: with a release tag vX.Y.Z or X.Y.Z at HEAD, a clean tree and no     *)
(* .rs file changed since the tag, bump returns success without computing  *)
(* a candidate and leaves the manifest as it was, whatever it declares.    *)
(***************************************************************************)
C3_CleanTagUpToDate ==
    [][(/\ BumpStep
        /\ dist = 0 /\ IsRelease(strip_prefix_v(tag))
        /\ CleanTree
        /\ ~(\E file_path \in diffPaths : Extension(file_path) = RS))
       => (out'.result = "Ok" /\ ~HasCandidate(out') /\ wtToml' = wtToml)]_vars

(***************************************************************************)
(* C4: check-tags fails with the untagged-release error exactly when the   *)
(* tree is dirty, the version declared by the manifest at HEAD has no      *)
(* pre-release and the latest tag is below it in semantic-version          *)
(* precedence; in every other case it succeeds.                            *)
(***************************************************************************)
C4_CheckTagsExactly ==
    out.op = "check_tags" =>
        /\ out.result \in {"Ok", "Untagged"}
        /\ out.result = "Untagged" <=>
              (/\ ~CleanTree
               /\ IsRelease(headToml)
               /\ Precedes(strip_prefix_v(tag), headToml))

\* a check-tags run that failed on an untagged release
C4_Witness ==
    /\ out.op = "check_tags" /\ out.result = "Untagged"
    /\ ~CleanTree /\ IsRelease(headToml) /\ Precedes(strip_prefix_v(tag), headToml)

(***************************************************************************)
(* C5: the ordering law of the tag check, with a the declared version and  *)
(* b the latest tag, on a dirty tree. As claimed: a < b with a a release   *)
(* fails with the untagged-release error, and a >= b succeeds.             *)
(***************************************************************************)
C5_OrderingLawClaimed ==
    (out.op = "check_tags" /\ ~CleanTree) =>
        /\ (IsRelease(headToml) /\ Precedes(headToml, strip_prefix_v(tag)))
               => out.result = "Untagged"
        /\ ~Precedes(headToml, strip_prefix_v(tag)) => out.result = "Ok"

\* C5 as amended: b < a with a a release fails with the untagged-release
\* error, and a <= b succeeds.
C5_OrderingLaw ==
    (out.op = "check_tags" /\ ~CleanTree) =>
        /\ (IsRelease(headToml) /\ Precedes(strip_prefix_v(tag), headToml))
               => out.result = "Untagged"
        /\ ~Precedes(strip_prefix_v(tag), headToml) => out.result = "Ok"

\* a check-tags run on a dirty tree whose release version is below the tag
C5_Witness ==
    /\ out.op = "check_tags" /\ ~CleanTree /\ out.result = "Ok"
    /\ IsRelease(headToml) /\ Precedes(headToml, strip_prefix_v(tag))

(***************************************************************************)
(* C6: the manifest at HEAD declares a release that equals the latest tag  *)
(* and the tree is dirty. As claimed: check-tags fails with the            *)
(* untagged-release error.                                                 *)
(***************************************************************************)
DeclaresTheTag ==
    /\ IsRelease(headToml)
    /\ ParseVersion(headToml) = TagVersion(tag)

C6_EqualFailsClaimed ==
    (out.op = "check_tags" /\ ~CleanTree /\ DeclaresTheTag) => out.result = "Untagged"

\* C6 as amended: check-tags succeeds.
C6_EqualSucceeds ==
    (out.op = "check_tags" /\ ~CleanTree /\ DeclaresTheTag) => out.result = "Ok"

\* a check-tags run on a dirty tree whose manifest declares the tag at HEAD
C6_Witness ==
    /\ out.op = "check_tags" /\ ~CleanTree /\ DeclaresTheTag /\ dist = 0
    /\ out.result = "Ok"

(***************************************************************************)
(* C7: bump on a dirty tree has found the declared release version         *)
(* outdated and has written a development candidate into the manifest. As  *)
(* claimed: the check-tags run that follows succeeds, at every commit      *)
(* distance and for every such declared version.                           *)
(***************************************************************************)
\* a check-tags run right after a bump that wrote a development candidate
\* over a declared release
CheckAfterBump ==
    /\ out.op = "bump" /\ out.wrote /\ out.is_dirty
    /\ ~IsRelease(out.candidate) /\ IsRelease(out.declared)
    /\ CheckTagsStep

C7_CheckAfterBumpClaimed == [][CheckAfterBump => out'.result = "Ok"]_vars

\* C7 as amended: the check-tags run that follows succeeds when the latest
\* tag is a release and the manifest committed at HEAD declares the version
\* bump read from the index.
C7_CheckAfterBump ==
    [][(/\ CheckAfterBump
        /\ IsRelease(strip_prefix_v(tag))
        /\ headToml = out.declared)
       => out'.result = "Ok"]_vars

\* check-tags has run on the state a bump left: a dirty tree, the release
\* still staged and committed, the development candidate in the manifest
C7_Witness ==
    /\ out.op = "check_tags" /\ again /\ out.result = "Ok" /\ out.is_dirty
    /\ dist > 0
    /\ F0RS \in dirtyPaths
    /\ IsRelease(headToml) /\ indexToml = headToml
    /\ ~IsRelease(wtToml) /\ Precedes(headToml, wtToml)

(***************************************************************************)
(* C8: the candidate keeps the tag's major and minor and has the tag's     *)
(* patch + 1; its label counts 1 when the tag's pre-release is empty,      *)
(* n + 1 when it is <n>-<suffix> and the tree is dirty, n when it is       *)
(* <n>-<suffix> and the tree is clean, and reads dev<count>, dev.<count>   *)
(* or dev.<count>.g<head id> by mode; a pre-release of another shape makes *)
(* bump fail instead of producing a candidate.                             *)
(***************************************************************************)
\* the label of a count, as the claim writes it
Label(kind, count, head_id) ==
    CASE kind = "PEP440" -> <<"d", "e", "v">> \o FormatNat(count)
      [] kind = "Semver" -> <<"d", "e", "v", ".">> \o FormatNat(count)
      [] kind = "SemverCommit" ->
            <<"d", "e", "v", ".">> \o FormatNat(count) \o <<".", "g">> \o head_id

\* the candidate of a count after the tag of the repository
CandidateOf(kind, count) ==
    FormatNat(TagVersion(tag).major) \o <<".">> \o FormatNat(TagVersion(tag).minor)
        \o <<".">> \o FormatNat(TagVersion(tag).patch + 1)
        \o <<"-">> \o Label(kind, count, SubSeq(head, 1, 5))

\* <n>-<suffix>: two hyphen-separated parts, the first an integer
TwoParts(parts) == Len(parts) = 2 /\ Len(parts[1]) > 0 /\ AllDigits(parts[1])

C8_CandidateOf(o, pre, parts) ==
    IF Len(pre) = 0
    THEN o.candidate = CandidateOf(o.mode, 1)
    ELSE IF TwoParts(parts)
    THEN /\ IsRelease(strip_prefix_v(tag)) => DigitsValue(parts[1]) = dist
         /\ o.candidate =
                CandidateOf(o.mode, IF o.is_dirty THEN DigitsValue(parts[1]) + 1
                                    ELSE DigitsValue(parts[1]))
    ELSE o.result = "Err" /\ ~HasCandidate(o)

C8_Candidate ==
    (out.op = "bump" /\ (out.is_dirty \/ out.changed)) =>
        C8_CandidateOf(out, get_latest_tag(Repo, 4).pre, Split(get_latest_tag(Repo, 4).pre, "-"))

\* a bump on a dirty tree past the tag, whose label counts one more than
\* the commit distance
C8_Witness ==
    /\ out.op = "bump" /\ out.is_dirty /\ dist > 1 /\ out.mode = "SemverCommit"
    /\ out.candidate = CandidateOf(out.mode, dist + 1)

(***************************************************************************)
(* C9: the candidate bump computes for a dirty tree and the candidate it   *)
(* computes once those changes are committed as one new commit. As         *)
(* claimed: the two are equal in every labeling mode.                      *)
(***************************************************************************)
\* what a bump of a repository would return in a mode
WouldBump(repo, kind) == run_sem_ver_repo(repo, TRUE, kind, RsFiletype)

\* the step that commits the changes of a tree dirty for bump
CommitsDirtyTree == head' # head /\ is_repo_dirty(Repo, RsFiletype)

C9_SameCandidate(before, after, kind) ==
    WouldBump(after, kind).candidate = WouldBump(before, kind).candidate

C9_UpToDateAfter(before, after, kind) ==
    /\ ~is_repo_dirty(after, RsFiletype)
    /\ (/\ HasCandidate(WouldBump(before, kind))
        /\ before.wtToml = WouldBump(before, kind).candidate)
           => WouldBump(after, kind).result = "Ok"

C10_Monotone ==
    \A m \in 1..(dist + 1), n \in 1..(dist + 1) :
        (/\ HasCandidate(out) /\ m < n
         /\ out.declared = CandidateOf(out.mode, m)
         /\ out.candidate = CandidateOf(out.mode, n))
        => (out.result = "Outdated" /\ Precedes(out.declared, out.candidate))

====
